---- MODULE Spec2Model ----
(***************************************************************************)
(* Model of mitoteam/goapp: the cobra command tree built by                *)
(* built_in_commands.go, the settings load/save of AppBase and the         *)
(* signal-driven shutdown of the `run` subcommand.                         *)
(*                                                                         *)
(* One behaviour is a sequence of invocations of the executable on one     *)
(* settings file.  Within an invocation the controlling thread walks       *)
(* cobra's hook order (PersistentPreRunE, PreRunE, RunE, PostRunE,         *)
(* PersistentPostRunE); `run` adds the serving goroutine, the signal       *)
(* channel, the in-flight requests and a clock for the shutdown deadline.  *)
(*                                                                         *)
(* Time: one tick is one poll interval of http.Server.Shutdown.  Steps of  *)
(* the controlling thread take no time; time passes only while it is       *)
(* blocked in Shutdown's select, or after the process has ended.           *)
(* WebserverCookieSecret is represented by its length: the code only       *)
(* compares it with "" and takes len() of it.                              *)
(***************************************************************************)
EXTENDS Integers, Sequences, FiniteSets, TLC

VARIABLES
    file,            \* the settings file at AppSettingsFilename
    defaultSettings, \* the defaultSettings the caller hands to NewAppBase
    cmd,             \* cmd.Name() of the invocation
    pc,              \* position of the controlling thread
    settings,        \* app.AppSettings / app.baseSettings (in memory)
    trace,           \* hooks and bodies that have returned, in order
    result,          \* what the process ended with
    stdout,          \* what was printed with fmt.Print*
    srv,             \* the serving goroutine and its listener
    sigNotify,       \* signal.Notify(cancel_channel, ...) has been called
    sigChan,         \* signals buffered in cancel_channel (capacity 1)
    baseCancelled,   \* app.BaseContext is cancelled (appShutdownF called)
    shutdownCtx,     \* the context handed to httpSrv.Shutdown
    inShutdown,      \* httpSrv.inShutdown
    shutdownCalls,   \* number of calls of httpSrv.Shutdown
    inflight,        \* active (non-idle) connections of httpSrv
    elapsed,         \* ticks since shutdownCtx was created
    serviceUnit,     \* the systemd unit of the service is installed
    initFFailed,     \* an earlier init wrote the file and its InitF failed
    apiPrefixOption, \* WebApiPathPrefix as the caller set it before Run()
    WebApiPathPrefix,\* app.WebApiPathPrefix
    modelMap,        \* DbSchema.modelMap (the type names)
    db,              \* DbSchema.db
    conn,            \* the SQL connection under DbSchema.db
    dbCalls,         \* the calls made on DbSchema, in order
    dbPanic          \* the panic that ended the use of DbSchema

vars == <<file, defaultSettings, cmd, pc, settings, trace, result, stdout, srv,
          sigNotify, sigChan, baseCancelled, shutdownCtx, inShutdown,
          shutdownCalls, inflight, elapsed, serviceUnit, initFFailed,
          apiPrefixOption, WebApiPathPrefix, modelMap, db, conn, dbCalls,
          dbPanic>>

runVars == <<srv, sigNotify, sigChan, baseCancelled, shutdownCtx, inShutdown,
             shutdownCalls, inflight, elapsed>>

dbVars == <<modelMap, db, conn, dbCalls, dbPanic>>

\* what the calls on DbSchema leave alone
commandVars == <<file, defaultSettings, cmd, pc, settings, trace, result,
                 stdout, serviceUnit, initFFailed, runVars, apiPrefixOption,
                 WebApiPathPrefix>>

\* what the steps of a command leave alone
optionVars == <<apiPrefixOption, WebApiPathPrefix, dbVars>>

----------------------------------------------------------------------------
(* Bounds *)

MaxSecretLen == 33
MaxInflight == 2
MaxTime == 3
MaxPrefixLen == 4
MaxDbCalls == 3

----------------------------------------------------------------------------
(* Program constants *)

\* app.ShutdownTimeout = 10 * time.Second, in ticks of 5 s
ShutdownTimeout == 2
DefaultWebserverPort == 15115
DefaultWebserverHostname == "localhost"
MinCookieSecretLen == 32
\* len("DEFAULT_DEV_SECRET")
DevCookieSecretLen == 18
SignalChannelCap == 1

NoSettingsRequiredCmdList == {"init", "version", "info", "help"}

\* the built-in subcommands, cobra's help, one custom subcommand and the
\* root command itself (no subcommand given; its Name() is ExecutableName)
BuiltInCommands == {"version", "install", "uninstall", "init", "info", "run"}
Commands == BuiltInCommands \cup {"help", "custom", "root"}

ErrNone == "nil"
ErrYaml == "yaml: unmarshal error"
ErrBaseUrlRequired == "base_url required in production"
ErrCookieSecretRequired == "webserver_cookie_secret required in production"
ErrCookieSecretLength ==
    "webserver_cookie_secret should be at least 32 characters long in production"
ErrExistingFile == "Can not initialize existing file"
ErrSave == "save settings error"
ErrNoSettingsFile == "No settings file found"
ErrForcedShutdown == "Server forced to shutdown"
ErrSystemd == "systemd error"
ErrCustom == "custom command error"
ErrInterrupted == "signal: interrupt"
HookErr(h) == h \o " error"

LoadErrors == {ErrYaml, ErrBaseUrlRequired, ErrCookieSecretRequired,
               ErrCookieSecretLength}

----------------------------------------------------------------------------
(* Settings *)

SomeBaseUrl == "https://example.org"
BaseUrls == {"", SomeBaseUrl}

Digit(d) == CASE d = 0 -> "0" [] d = 1 -> "1" [] d = 2 -> "2" [] d = 3 -> "3"
              [] d = 4 -> "4" [] d = 5 -> "5" [] d = 6 -> "6" [] d = 7 -> "7"
              [] d = 8 -> "8" [] d = 9 -> "9"

RECURSIVE Itoa(_)
Itoa(n) == IF n < 10 THEN Digit(n) ELSE Itoa(n \div 10) \o Digit(n % 10)

\* the file: absent, unparsable, or the keys production, base_url and
\* webserver_cookie_secret (hostname and port keys are left out of the file)
NoFile == [exists |-> FALSE, valid |-> FALSE, Production |-> FALSE,
           BaseUrl |-> "", WebserverCookieSecret |-> 0]
BadFile == [NoFile EXCEPT !.exists = TRUE]
FileOf(p, u, s) == [exists |-> TRUE, valid |-> TRUE, Production |-> p,
                    BaseUrl |-> u, WebserverCookieSecret |-> s]

\* the lengths of webserver_cookie_secret a file may hold
AllSecretLens == 0 .. MaxSecretLen

Files(lens) == {NoFile, BadFile} \cup
    {FileOf(p, u, s) : p \in BOOLEAN, u \in BaseUrls, s \in lens}

BaseSettings(p, u, s) ==
    [Production |-> p, BaseUrl |-> u, WebserverCookieSecret |-> s,
     WebserverHostname |-> DefaultWebserverHostname,
     WebserverPort |-> DefaultWebserverPort,
     LoadedFromFile |-> FALSE]

\* what a caller may pass to NewAppBase: blank development defaults,
\* defaults that are already fit for production, or production defaults
\* whose base URL and cookie secret the operator has to fill in
DefaultSettingsSet ==
    {BaseSettings(FALSE, "", 0),
     BaseSettings(TRUE, SomeBaseUrl, MinCookieSecretLen),
     BaseSettings(TRUE, "", 0)}

\* mttools.LoadYamlSettingFromFile: keys of the file overwrite the fields
LoadYamlSettingFromFile(f, s) ==
    IF ~f.valid THEN [err |-> ErrYaml, settings |-> s]
    ELSE [err |-> ErrNone,
          settings |-> [s EXCEPT !.Production = f.Production,
                                 !.BaseUrl = f.BaseUrl,
                                 !.WebserverCookieSecret = f.WebserverCookieSecret]]

\* mttools.SaveYamlSettingToFile: every option with its current value
SaveYamlSettingToFile(s) ==
    FileOf(s.Production, s.BaseUrl, s.WebserverCookieSecret)

DerivedBaseUrl(s) ==
    "http://" \o s.WebserverHostname \o ":" \o Itoa(s.WebserverPort)

\* mutant: the length check is off by one
PostProcess_OffByOne(s0) ==
    LET s == [s0 EXCEPT !.LoadedFromFile = TRUE] IN
    IF s.Production
    THEN IF s.BaseUrl = ""
         THEN [err |-> ErrBaseUrlRequired, settings |-> s]
         ELSE IF s.WebserverCookieSecret = 0
         THEN [err |-> ErrCookieSecretRequired, settings |-> s]
         ELSE IF s.WebserverCookieSecret < MinCookieSecretLen - 1
         THEN [err |-> ErrCookieSecretLength, settings |-> s]
         ELSE [err |-> ErrNone, settings |-> s]
    ELSE [err |-> ErrNone, settings |-> s]

\* the settings post-processing of loadSettings, after a successful parse
PostProcess(s0) ==
    LET s == [s0 EXCEPT !.LoadedFromFile = TRUE] IN
    IF s.Production
    THEN IF s.BaseUrl = ""
         THEN [err |-> ErrBaseUrlRequired, settings |-> s]
         ELSE IF s.WebserverCookieSecret = 0
         THEN [err |-> ErrCookieSecretRequired, settings |-> s]
         ELSE IF s.WebserverCookieSecret < MinCookieSecretLen
         THEN [err |-> ErrCookieSecretLength, settings |-> s]
         ELSE [err |-> ErrNone, settings |-> s]
    ELSE LET s1 == IF s.BaseUrl = ""
                   THEN [s EXCEPT !.BaseUrl = DerivedBaseUrl(s)] ELSE s
             s2 == IF s1.WebserverCookieSecret = 0
                   THEN [s1 EXCEPT !.WebserverCookieSecret = DevCookieSecretLen]
                   ELSE s1
         IN [err |-> ErrNone, settings |-> s2]

loadSettings(f, s) ==
    IF f.exists
    THEN LET y == LoadYamlSettingFromFile(f, s) IN
         IF y.err # ErrNone THEN y ELSE PostProcess(y.settings)
    ELSE [err |-> "File not found", settings |-> s]

----------------------------------------------------------------------------
(* The command tree: cobra runs PersistentPreRunE, PreRunE, RunE, PostRunE *)
(* and PersistentPostRunE in this order and stops at the first error,      *)
(* which AppBase.Run reports with log.Fatalln.                             *)

Exited == {"exit_ok", "exit_err", "exit_fatal", "exit_killed"}
Alive == pc \notin Exited \cup {"idle"}

\* a callback field: nil, or a function that returns nil or an error
HookOutcomes == {"unset", "ok", "err"}

Returned(tr, step, res) == Append(tr, [step |-> step, res |-> res])
CallHook(tr, h, r) == IF r = "unset" THEN tr ELSE Returned(tr, h, r)

Outcome(p, res, s, tr) == [pc |-> p, result |-> res, settings |-> s, trace |-> tr]

AfterPersistentPreRun(c) == IF c = "run" THEN "PreRunE" ELSE "RunE"
AfterRun(c) == IF c = "run" THEN "PostRunE" ELSE "PersistentPostRunE"

\* mutant: info is taken to need the settings file
SettingsRequired_InfoListedOut(c) == c \notin {"init", "version", "help"}

\* the commands that run without a settings file
SettingsRequired(c) == c \notin NoSettingsRequiredCmdList

\* the PreCmdF part of rootCmd.PersistentPreRunE; r is what PreCmdF returns
CallPreCmdF(c, s, tr, r) ==
    IF r = "err"
    THEN Outcome("exit_err", HookErr("PreCmdF"), s, CallHook(tr, "PreCmdF", r))
    ELSE Outcome(AfterPersistentPreRun(c), "running", s, CallHook(tr, "PreCmdF", r))

\* mutant: the settings are not loaded for the commands of the list
RootPersistentPreRunE_NoLoadForListed(f, c, s, tr, r) ==
    IF f.exists /\ SettingsRequired(c)
    THEN LET l == loadSettings(f, s) IN
         IF l.err # ErrNone
         THEN Outcome("exit_err", l.err, l.settings, tr)
         ELSE CallPreCmdF(c, l.settings, tr, r)
    ELSE IF ~f.exists /\ SettingsRequired(c)
         THEN Outcome("exit_fatal", ErrNoSettingsFile, s, tr)
         ELSE CallPreCmdF(c, s, tr, r)

\* rootCmd.PersistentPreRunE
RootPersistentPreRunE(f, c, s, tr, r) ==
    IF f.exists
    THEN LET l == loadSettings(f, s) IN
         IF l.err # ErrNone
         THEN Outcome("exit_err", l.err, l.settings, tr)
         ELSE CallPreCmdF(c, l.settings, tr, r)
    ELSE IF SettingsRequired(c)
         THEN Outcome("exit_fatal", ErrNoSettingsFile, s, tr)
         ELSE CallPreCmdF(c, s, tr, r)

\* a hook-only handler (run's PreRunE and PostRunE, PersistentPostRunE)
HookHandler(h, r, s, tr, next, nextResult) ==
    IF r = "err"
    THEN Outcome("exit_err", HookErr(h), s, CallHook(tr, h, r))
    ELSE Outcome(next, nextResult, s, CallHook(tr, h, r))

\* mutant: the error of PreRunF is dropped
RunPreRunE_IgnoreError(r, s, tr) ==
    Outcome("RunE", "running", s, CallHook(tr, "PreRunF", r))

\* mutant: the error of PostRunF is dropped
RunPostRunE_IgnoreError(r, s, tr) ==
    Outcome("PersistentPostRunE", "running", s, CallHook(tr, "PostRunF", r))

RunPreRunE(r, s, tr) == HookHandler("PreRunF", r, s, tr, "RunE", "running")
RunPostRunE(r, s, tr) ==
    HookHandler("PostRunF", r, s, tr, "PersistentPostRunE", "running")
RootPersistentPostRunE(r, s, tr) ==
    HookHandler("PostCmdF", r, s, tr, "exit_ok", "ok")

\* mutant: init removes the file it wrote when InitF fails
InitRunE_RollBack(f, s, tr, saved, r) ==
    IF f.exists
    THEN [file |-> f, out |-> {},
          o |-> Outcome("exit_err", ErrExistingFile, s, Returned(tr, "RunE", "err"))]
    ELSE IF ~saved
    THEN [file |-> f, out |-> {},
          o |-> Outcome("exit_err", ErrSave, s, Returned(tr, "RunE", "err"))]
    ELSE IF r = "err"
    THEN [file |-> f, out |-> {"settings written"},
          o |-> Outcome("exit_err", HookErr("InitF"), s,
                        Returned(CallHook(tr, "InitF", r), "RunE", "err"))]
    ELSE [file |-> SaveYamlSettingToFile(s), out |-> {"settings written"},
          o |-> Outcome(AfterRun("init"), "running", s,
                        Returned(CallHook(tr, "InitF", r), "RunE", "ok"))]

\* mutant: init does not look for an existing file
InitRunE_Overwrite(f, s, tr, saved, r) ==
    IF ~saved
    THEN [file |-> f, out |-> {},
          o |-> Outcome("exit_err", ErrSave, s, Returned(tr, "RunE", "err"))]
    ELSE [file |-> SaveYamlSettingToFile(s), out |-> {"settings written"},
          o |-> Outcome(AfterRun("init"), "running", s,
                        Returned(CallHook(tr, "InitF", r), "RunE", "ok"))]

\* init's RunE; saved: SaveYamlSettingToFile succeeded; r: what InitF returns
InitRunE(f, s, tr, saved, r) ==
    IF f.exists
    THEN [file |-> f, out |-> {},
          o |-> Outcome("exit_err", ErrExistingFile, s, Returned(tr, "RunE", "err"))]
    ELSE IF ~saved
    THEN [file |-> f, out |-> {},
          o |-> Outcome("exit_err", ErrSave, s, Returned(tr, "RunE", "err"))]
    ELSE IF r = "err"
    THEN [file |-> SaveYamlSettingToFile(s), out |-> {"settings written"},
          o |-> Outcome("exit_err", HookErr("InitF"), s,
                        Returned(CallHook(tr, "InitF", r), "RunE", "err"))]
    ELSE [file |-> SaveYamlSettingToFile(s), out |-> {"settings written"},
          o |-> Outcome(AfterRun("init"), "running", s,
                        Returned(CallHook(tr, "InitF", r), "RunE", "ok"))]

\* install / uninstall Run; avail: IsSystemdAvailable(); done: no error from
\* InstallSystemdService / UninstallSystemdService
ServiceRun(c, unit, s, tr, avail, done) ==
    IF avail /\ done
    THEN [unit |-> (c = "install"),
          o |-> Outcome(AfterRun(c), "running", s, Returned(tr, "RunE", "ok"))]
    ELSE [unit |-> unit, o |-> Outcome("exit_fatal", ErrSystemd, s, tr)]

\* info's Run
InfoOutput(s) ==
    {"info"} \cup (IF s.LoadedFromFile THEN {"settings"} ELSE {"file not found"})

----------------------------------------------------------------------------
(* `run`: http.Server, the signal channel and the shutdown context *)

\* shutdownCtx.Err(): context.WithTimeout(app.BaseContext, app.ShutdownTimeout)
\* is done once its parent is cancelled or its deadline has passed
ShutdownCtxErr(ctx, parentCancelled, t) ==
    IF ctx = "none" THEN ErrNone
    ELSE IF parentCancelled THEN "context canceled"
    ELSE IF t >= ShutdownTimeout THEN "context deadline exceeded"
    ELSE ErrNone

\* mutant: a context that is done counts as a completed shutdown
ShutdownPollStep_DoneIsSuccess(active, ctxErr) ==
    IF active = 0 \/ ctxErr # ErrNone THEN "return nil" ELSE "wait"

\* one round of the loop of http.Server.Shutdown: closeIdleConns() is true
\* when no connection is active; otherwise select on ctx.Done() and the timer
ShutdownPollStep(active, ctxErr) ==
    IF active = 0 THEN "return nil"
    ELSE IF ctxErr # ErrNone THEN "return ctx.Err()"
    ELSE "wait"

\* mutant: the error of httpSrv.Shutdown is dropped
AfterShutdown_IgnoreError(step, s, tr) ==
    Outcome(AfterRun("run"), "running", s, Returned(tr, "RunE", "ok"))

\* what RunE does with the result of httpSrv.Shutdown
AfterShutdown(step, s, tr) ==
    IF step = "return nil"
    THEN Outcome(AfterRun("run"), "running", s, Returned(tr, "RunE", "ok"))
    ELSE Outcome("exit_fatal", ErrForcedShutdown, s, tr)

\* ListenAndServe on the serving goroutine; bound: net.Listen succeeded
ListenAndServeResult(shuttingDown, bound) ==
    IF shuttingDown THEN "closed" ELSE IF bound THEN "listening" ELSE "failed"

\* delivery of SIGINT to a channel registered with signal.Notify
Deliver(n) == IF n < SignalChannelCap THEN n + 1 ELSE n

----------------------------------------------------------------------------
(* WebApiPathPrefix: a string is the sequence of its characters *)

PrefixChars == {"/", "a", "p", "i"}
UsualWebApiPathPrefix == <<"/", "a", "p", "i">>

RECURSIVE StringsUpTo(_)
StringsUpTo(n) ==
    IF n = 0 THEN {<<>>}
    ELSE LET shorter == StringsUpTo(n - 1) IN
         shorter \cup {Append(s, c) : s \in shorter, c \in PrefixChars}

\* strings.TrimSuffix(s, suffix) and strings.HasPrefix(s, prefix) for a
\* suffix or prefix of one character
TrimSuffix(s, c) ==
    IF Len(s) > 0 /\ s[Len(s)] = c THEN SubSeq(s, 1, Len(s) - 1) ELSE s
HasPrefix(s, c) == Len(s) > 0 /\ s[1] = c

\* the check of app.WebApiPathPrefix in internalInit
internalInitWebApiPathPrefix(prefix) ==
    IF prefix # <<>>
    THEN LET trimmed == TrimSuffix(prefix, "/") IN
         IF ~HasPrefix(trimmed, "/") THEN Append(trimmed, "/") ELSE trimmed
    ELSE prefix

----------------------------------------------------------------------------
(* State machine *)

InitWith(files) ==
    /\ file \in files
    /\ defaultSettings \in DefaultSettingsSet
    /\ serviceUnit = FALSE
    /\ initFFailed = FALSE
    /\ modelMap = {}
    /\ db = "nil"
    /\ conn = "none"
    /\ dbCalls = <<>>
    /\ dbPanic = "none"
    /\ cmd = "none"
    /\ pc = "idle"
    /\ settings = defaultSettings
    /\ trace = <<>>
    /\ result = "none"
    /\ stdout = {}
    /\ srv = "none"
    /\ sigNotify = FALSE
    /\ sigChan = 0
    /\ baseCancelled = FALSE
    /\ shutdownCtx = "none"
    /\ inShutdown = FALSE
    /\ shutdownCalls = 0
    /\ inflight = 0
    /\ elapsed = 0

Init ==
    /\ InitWith(Files(AllSecretLens))
    /\ apiPrefixOption = UsualWebApiPathPrefix
    /\ WebApiPathPrefix = apiPrefixOption

Apply(o) ==
    /\ pc' = o.pc
    /\ result' = o.result
    /\ settings' = o.settings
    /\ trace' = o.trace

\* NewAppBase, internalInit and rootCmd.Execute of a new process
Execute(c) ==
    /\ pc \in Exited \cup {"idle"}
    /\ cmd' = c
    /\ pc' = "PersistentPreRunE"
    /\ settings' = defaultSettings
    /\ trace' = <<>>
    /\ result' = "running"
    /\ stdout' = {}
    /\ srv' = "none"
    /\ sigNotify' = FALSE
    /\ sigChan' = 0
    /\ baseCancelled' = FALSE
    /\ shutdownCtx' = "none"
    /\ inShutdown' = FALSE
    /\ shutdownCalls' = 0
    /\ inflight' = 0
    /\ elapsed' = 0
    /\ WebApiPathPrefix' = internalInitWebApiPathPrefix(apiPrefixOption)
    /\ UNCHANGED <<file, defaultSettings, serviceUnit, initFFailed,
                   apiPrefixOption, dbVars>>

PersistentPreRunE(r) ==
    /\ UNCHANGED <<initFFailed, optionVars>>
    /\ pc = "PersistentPreRunE"
    /\ Apply(RootPersistentPreRunE(file, cmd, settings, trace, r))
    /\ UNCHANGED <<file, defaultSettings, serviceUnit, cmd, stdout, runVars>>

PreRunE(r) ==
    /\ UNCHANGED <<initFFailed, optionVars>>
    /\ pc = "PreRunE"
    /\ Apply(RunPreRunE(r, settings, trace))
    /\ UNCHANGED <<file, defaultSettings, serviceUnit, cmd, stdout, runVars>>

VersionRun ==
    /\ UNCHANGED <<initFFailed, optionVars>>
    /\ pc = "RunE" /\ cmd = "version"
    /\ stdout' = stdout \cup {"version"}
    /\ Apply(Outcome(AfterRun(cmd), "running", settings, Returned(trace, "RunE", "ok")))
    /\ UNCHANGED <<file, defaultSettings, serviceUnit, cmd, runVars>>

HelpRun ==
    /\ UNCHANGED <<initFFailed, optionVars>>
    /\ pc = "RunE" /\ cmd \in {"help", "root"}
    /\ stdout' = stdout \cup {"help"}
    /\ Apply(Outcome(AfterRun(cmd), "running", settings, Returned(trace, "RunE", "ok")))
    /\ UNCHANGED <<file, defaultSettings, serviceUnit, cmd, runVars>>

InfoRun ==
    /\ UNCHANGED <<initFFailed, optionVars>>
    /\ pc = "RunE" /\ cmd = "info"
    /\ stdout' = stdout \cup InfoOutput(settings)
    /\ Apply(Outcome(AfterRun(cmd), "running", settings, Returned(trace, "RunE", "ok")))
    /\ UNCHANGED <<file, defaultSettings, serviceUnit, cmd, runVars>>

InstallRun(avail, done) ==
    /\ UNCHANGED <<initFFailed, optionVars>>
    /\ pc = "RunE" /\ cmd = "install"
    /\ LET x == ServiceRun(cmd, serviceUnit, settings, trace, avail, done) IN
         serviceUnit' = x.unit /\ Apply(x.o)
    /\ UNCHANGED <<file, defaultSettings, cmd, stdout, runVars>>

UninstallRun(avail, done) ==
    /\ UNCHANGED <<initFFailed, optionVars>>
    /\ pc = "RunE" /\ cmd = "uninstall"
    /\ LET x == ServiceRun(cmd, serviceUnit, settings, trace, avail, done) IN
         serviceUnit' = x.unit /\ Apply(x.o)
    /\ UNCHANGED <<file, defaultSettings, cmd, stdout, runVars>>

InitRun(saved, r) ==
    /\ pc = "RunE" /\ cmd = "init"
    /\ LET x == InitRunE(file, settings, trace, saved, r) IN
         /\ file' = x.file /\ stdout' = stdout \cup x.out /\ Apply(x.o)
         /\ initFFailed' = (initFFailed \/ x.o.result = HookErr("InitF"))
    /\ UNCHANGED optionVars
    /\ UNCHANGED <<defaultSettings, serviceUnit, cmd, runVars>>

\* a subcommand added by BuildCustomCommandsF, with a RunE of its own
CustomRun(ok) ==
    /\ UNCHANGED <<initFFailed, optionVars>>
    /\ pc = "RunE" /\ cmd = "custom"
    /\ Apply(IF ok
             THEN Outcome(AfterRun(cmd), "running", settings,
                          Returned(trace, "RunE", "ok"))
             ELSE Outcome("exit_err", ErrCustom, settings,
                          Returned(trace, "RunE", "err")))
    /\ UNCHANGED <<file, defaultSettings, serviceUnit, cmd, stdout, runVars>>

\* run's RunE up to the blocking receive: the server is constructed, the
\* serving goroutine is started and the signal channel is registered
RunStart ==
    /\ UNCHANGED <<initFFailed, optionVars>>
    /\ pc = "RunE" /\ cmd = "run"
    /\ srv' = "starting"
    /\ sigNotify' = TRUE
    /\ pc' = "wait_signal"
    /\ UNCHANGED <<file, defaultSettings, serviceUnit, cmd, settings, trace,
                   result, stdout, sigChan, baseCancelled, shutdownCtx,
                   inShutdown, shutdownCalls, inflight, elapsed>>

\* mutant: app.appShutdownF() is not called
ReceiveSignal_NoCancel ==
    /\ UNCHANGED <<initFFailed, optionVars>>
    /\ pc = "wait_signal"
    /\ sigChan > 0
    /\ sigChan' = sigChan - 1
    /\ shutdownCtx' = "WithTimeout(BaseContext)"
    /\ elapsed' = 0
    /\ pc' = "Shutdown"
    /\ UNCHANGED <<file, defaultSettings, serviceUnit, cmd, settings, trace,
                   result, stdout, srv, sigNotify, inShutdown, shutdownCalls,
                   inflight, baseCancelled>>

\* <-cancel_channel, app.appShutdownF() and context.WithTimeout
ReceiveSignal ==
    /\ UNCHANGED <<initFFailed, optionVars>>
    /\ pc = "wait_signal"
    /\ sigChan > 0
    /\ sigChan' = sigChan - 1
    /\ baseCancelled' = TRUE
    /\ shutdownCtx' = "WithTimeout(BaseContext)"
    /\ elapsed' = 0
    /\ pc' = "Shutdown"
    /\ UNCHANGED <<file, defaultSettings, serviceUnit, cmd, settings, trace,
                   result, stdout, srv, sigNotify, inShutdown, shutdownCalls,
                   inflight>>

\* httpSrv.Shutdown up to its loop: inShutdown is set, the listeners close
ShutdownBegin ==
    /\ UNCHANGED <<initFFailed, optionVars>>
    /\ pc = "Shutdown"
    /\ inShutdown' = TRUE
    /\ srv' = IF srv = "listening" THEN "closed" ELSE srv
    /\ shutdownCalls' = shutdownCalls + 1
    /\ pc' = "ShutdownPoll"
    /\ UNCHANGED <<file, defaultSettings, serviceUnit, cmd, settings, trace,
                   result, stdout, sigNotify, sigChan, baseCancelled,
                   shutdownCtx, inflight, elapsed>>

\* one round of Shutdown's loop and, when it returns, the rest of RunE
ShutdownPoll ==
    /\ UNCHANGED <<initFFailed, optionVars>>
    /\ pc = "ShutdownPoll"
    /\ LET step == ShutdownPollStep(inflight,
                       ShutdownCtxErr(shutdownCtx, baseCancelled, elapsed)) IN
         IF step = "wait"
         THEN /\ elapsed' = elapsed + 1
              /\ UNCHANGED <<pc, result, settings, trace>>
         ELSE /\ Apply(AfterShutdown(step, settings, trace))
              /\ UNCHANGED elapsed
    /\ UNCHANGED <<file, defaultSettings, serviceUnit, cmd, stdout, srv,
                   sigNotify, sigChan, baseCancelled, shutdownCtx, inShutdown,
                   shutdownCalls, inflight>>

PostRunE(r) ==
    /\ UNCHANGED <<initFFailed, optionVars>>
    /\ pc = "PostRunE"
    /\ Apply(RunPostRunE(r, settings, trace))
    /\ UNCHANGED <<file, defaultSettings, serviceUnit, cmd, stdout, runVars>>

PersistentPostRunE(r) ==
    /\ UNCHANGED <<initFFailed, optionVars>>
    /\ pc = "PersistentPostRunE"
    /\ Apply(RootPersistentPostRunE(r, settings, trace))
    /\ UNCHANGED <<file, defaultSettings, serviceUnit, cmd, stdout, runVars>>

\* mutant: a failure of ListenAndServe is fatal (log.Fatal instead of log.Println)
ListenAndServe_FatalOnError(bound) ==
    /\ UNCHANGED <<initFFailed, optionVars>>
    /\ Alive
    /\ srv = "starting"
    /\ srv' = ListenAndServeResult(inShutdown, bound)
    /\ IF srv' = "failed"
       THEN pc' = "exit_fatal" /\ result' = "listen error"
       ELSE UNCHANGED <<pc, result>>
    /\ UNCHANGED <<file, defaultSettings, serviceUnit, cmd, settings, trace,
                   stdout, sigNotify, sigChan, baseCancelled,
                   shutdownCtx, inShutdown, shutdownCalls, inflight, elapsed>>

\* the serving goroutine: httpSrv.ListenAndServe()
ListenAndServe(bound) ==
    /\ UNCHANGED <<initFFailed, optionVars>>
    /\ Alive
    /\ srv = "starting"
    /\ srv' = ListenAndServeResult(inShutdown, bound)
    /\ UNCHANGED <<file, defaultSettings, serviceUnit, cmd, pc, settings, trace,
                   result, stdout, sigNotify, sigChan, baseCancelled,
                   shutdownCtx, inShutdown, shutdownCalls, inflight, elapsed>>

\* a client's request is accepted by the open listener
RequestArrive ==
    /\ UNCHANGED <<initFFailed, optionVars>>
    /\ Alive
    /\ srv = "listening"
    /\ inflight < MaxInflight
    /\ inflight' = inflight + 1
    /\ UNCHANGED <<file, defaultSettings, serviceUnit, cmd, pc, settings, trace,
                   result, stdout, srv, sigNotify, sigChan, baseCancelled,
                   shutdownCtx, inShutdown, shutdownCalls, elapsed>>

\* a handler returns and its connection becomes idle
RequestComplete ==
    /\ UNCHANGED <<initFFailed, optionVars>>
    /\ Alive
    /\ inflight > 0
    /\ inflight' = inflight - 1
    /\ UNCHANGED <<file, defaultSettings, serviceUnit, cmd, pc, settings, trace,
                   result, stdout, srv, sigNotify, sigChan, baseCancelled,
                   shutdownCtx, inShutdown, shutdownCalls, elapsed>>

\* the operator sends SIGINT: buffered in cancel_channel once signal.Notify
\* has run, the Go runtime's default (the process dies) before that
Interrupt ==
    /\ UNCHANGED <<initFFailed, optionVars>>
    /\ Alive
    /\ IF sigNotify
       THEN /\ sigChan' = Deliver(sigChan)
            /\ UNCHANGED <<pc, result>>
       ELSE /\ pc' = "exit_killed"
            /\ result' = ErrInterrupted
            /\ UNCHANGED sigChan
    /\ UNCHANGED <<file, defaultSettings, serviceUnit, cmd, settings, trace,
                   stdout, srv, sigNotify, baseCancelled, shutdownCtx,
                   inShutdown, shutdownCalls, inflight, elapsed>>

\* time goes on after the process has ended
Tick ==
    /\ UNCHANGED <<initFFailed, optionVars>>
    /\ pc \in Exited
    /\ shutdownCtx # "none"
    /\ elapsed < MaxTime
    /\ elapsed' = elapsed + 1
    /\ UNCHANGED <<file, defaultSettings, serviceUnit, cmd, pc, settings, trace,
                   result, stdout, srv, sigNotify, sigChan, baseCancelled,
                   shutdownCtx, inShutdown, shutdownCalls, inflight>>

ControlStep ==
    \/ \E r \in HookOutcomes : PersistentPreRunE(r)
    \/ \E r \in HookOutcomes : PreRunE(r)
    \/ VersionRun
    \/ HelpRun
    \/ InfoRun
    \/ \E avail, done \in BOOLEAN : InstallRun(avail, done)
    \/ \E avail, done \in BOOLEAN : UninstallRun(avail, done)
    \/ \E saved \in BOOLEAN, r \in HookOutcomes : InitRun(saved, r)
    \/ \E ok \in BOOLEAN : CustomRun(ok)
    \/ RunStart
    \/ ReceiveSignal
    \/ ShutdownBegin
    \/ ShutdownPoll
    \/ \E r \in HookOutcomes : PostRunE(r)
    \/ \E r \in HookOutcomes : PersistentPostRunE(r)

Next ==
    \/ \E c \in Commands : Execute(c)
    \/ ControlStep
    \/ \E bound \in BOOLEAN : ListenAndServe(bound)
    \/ RequestArrive
    \/ RequestComplete
    \/ Interrupt
    \/ Tick

Spec == Init /\ [][Next]_vars

\* the Go scheduler runs a runnable goroutine: the controlling thread and the
\* serving goroutine take their steps; signals, requests and new invocations
\* come from outside and are not forced
FairSpec == Spec /\ WF_vars(ControlStep)
                 /\ WF_vars(\E bound \in BOOLEAN : ListenAndServe(bound))

----------------------------------------------------------------------------
(* DbSchema: the surrounding application registers models, opens and      *)
(* closes the database                                                     *)

\* model types: structs that embed DbModel, a struct that does not, and a
\* type that is no struct
DbModelTypes == {"User", "Session"}
ModelTypes == DbModelTypes \cup {"Plain", "int"}

\* what schema.db.DB() may return: the handle; an error and no handle; an
\* error together with a handle
DbHandleResults == {"handle", "error", "handle and error"}

\* the condition under which Close calls sqlDB.Close()
CloseCallsSqlClose(h) == h # "handle"

\* sqlDB.Close() on what DB() returned: a nil handle cannot be used
SqlCloseResult(h, c) ==
    IF h = "error" THEN [panic |-> "nil pointer dereference", conn |-> c]
    ELSE [panic |-> "none", conn |-> IF c = "open" THEN "closed" ELSE c]

\* dbSchemaType.Close with h what schema.db.DB() returns
DbSchemaClose(d, c, h) ==
    IF d = "nil"
    THEN [panic |-> "nil pointer dereference", db |-> d, conn |-> c,
          call |-> "Close"]
    ELSE LET x == IF CloseCallsSqlClose(h) THEN SqlCloseResult(h, c)
                  ELSE [panic |-> "none", conn |-> c]
             call == IF h = "handle" THEN "Close" ELSE "Close, DB() error"
         IN IF x.panic # "none"
            THEN [panic |-> x.panic, db |-> d, conn |-> x.conn, call |-> call]
            ELSE [panic |-> "none", db |-> "nil", conn |-> x.conn, call |-> call]

DbLive == dbPanic = "none" /\ Len(dbCalls) < MaxDbCalls

AddModel(t) ==
    /\ DbLive
    /\ dbCalls' = Append(dbCalls, "AddModel")
    /\ IF t \in DbModelTypes
       THEN modelMap' = modelMap \cup {t} /\ UNCHANGED dbPanic
       ELSE dbPanic' = "AddModel" /\ UNCHANGED modelMap
    /\ UNCHANGED <<db, conn, commandVars>>

\* opened: gorm.Open returned no error; migrated: neither did AutoMigrate
Open(opened, migrated) ==
    /\ DbLive
    /\ IF ~opened
       THEN /\ db' = "invalid"
            /\ dbCalls' = Append(dbCalls, "Open, error")
            /\ UNCHANGED <<conn, dbPanic>>
       ELSE /\ db' = "open"
            /\ conn' = "open"
            /\ dbCalls' = Append(dbCalls, "Open")
            /\ dbPanic' = IF modelMap # {} /\ ~migrated THEN "AutoMigrate"
                          ELSE "none"
    /\ UNCHANGED <<modelMap, commandVars>>

Close(h) ==
    /\ DbLive
    /\ LET x == DbSchemaClose(db, conn, h) IN
         /\ db' = x.db
         /\ conn' = x.conn
         /\ dbPanic' = x.panic
         /\ dbCalls' = Append(dbCalls, x.call)
    /\ UNCHANGED <<modelMap, commandVars>>

DbInit ==
    /\ InitWith({NoFile})
    /\ apiPrefixOption = UsualWebApiPathPrefix
    /\ WebApiPathPrefix = apiPrefixOption

DbNext ==
    \/ \E t \in ModelTypes : AddModel(t)
    \/ \E opened, migrated \in BOOLEAN : Open(opened, migrated)
    \/ \E h \in DbHandleResults : Close(h)

DbSpec == DbInit /\ [][DbNext]_vars

\* internalInit on every value of WebApiPathPrefix: the start of Run()
PrefixInit ==
    /\ InitWith({NoFile})
    /\ apiPrefixOption \in StringsUpTo(MaxPrefixLen)
    /\ WebApiPathPrefix = apiPrefixOption

PrefixNext == \E c \in Commands : Execute(c)

PrefixSpec == PrefixInit /\ [][PrefixNext]_vars

----------------------------------------------------------------------------
(* Vocabulary of the properties *)

Has(step) == \E i \in DOMAIN trace : trace[i].step = step
HasRes(step, res) == \E i \in DOMAIN trace : trace[i] = [step |-> step, res |-> res]
Started == pc \notin {"idle", "PersistentPreRunE"}
Killed == pc = "exit_killed"
ForcedShutdown == pc = "exit_fatal" /\ result = ErrForcedShutdown
ExemptCommands == {"init", "version", "info", "help"}
HookFailed == \E i \in DOMAIN trace : trace[i].res = "err"

\* the file the root pre-hook of this invocation saw: only init writes it
FileWritten == "settings written" \in stdout
FileWasAbsent == ~file.exists \/ FileWritten
FileWasPresent == file.exists /\ ~FileWritten

----------------------------------------------------------------------------
(* C1 *)

\* C1: the fatal 'Server forced to shutdown' exit is taken only when the
\* shutdown timeout has elapsed since the signal was received, so a request
\* that completes within the window never meets the fatal exit.
C1_FatalOnlyAfterDrainWindow ==
    [][(pc # "exit_fatal" /\ pc' = "exit_fatal" /\ result' = ErrForcedShutdown)
          => elapsed' >= ShutdownTimeout]_vars

----------------------------------------------------------------------------
(* C2 *)

RunReturnedNil == cmd = "run" /\ HasRes("RunE", "ok")
GracefullyStopped == RunReturnedNil /\ srv # "listening" /\ baseCancelled

\* C2: an interrupt delivered while `run` is waiting for its signal with no
\* request in flight leads, unless a request comes to be in flight, to the
\* listener closed, the base context cancelled and RunE returned nil; and
\* the forced-shutdown exit is taken only with a request in flight.
C2_InterruptStopsGracefully ==
    /\ [](ForcedShutdown => inflight > 0)
    /\ (pc = "wait_signal" /\ sigChan > 0 /\ inflight = 0)
          ~> (GracefullyStopped \/ inflight > 0)

C2_Witness ==
    /\ pc = "exit_ok" /\ RunReturnedNil /\ result = "ok"
    /\ srv = "closed" /\ baseCancelled /\ inflight = 0 /\ shutdownCalls = 1

----------------------------------------------------------------------------
(* C3 *)

\* C3: when the shutdown timeout has elapsed since the signal and a request
\* is still in flight, the process has ended through the fatal 'Server
\* forced to shutdown' path: RunE has not returned, the post-run hooks have
\* not run and Shutdown was called exactly once.
C3_ForcedShutdownOnTimeout ==
    (shutdownCtx # "none" /\ elapsed >= ShutdownTimeout /\ inflight > 0)
        => /\ ForcedShutdown
           /\ ~Has("RunE") /\ ~Has("PostRunF") /\ ~Has("PostCmdF")
           /\ shutdownCalls = 1

C3_Witness ==
    /\ ForcedShutdown /\ cmd = "run" /\ inflight > 0
    /\ elapsed >= ShutdownTimeout /\ shutdownCalls = 1

----------------------------------------------------------------------------
(* C4 *)

\* C4: once run's PreRunF has returned an error, the server was never
\* constructed or started, the signal wait was never entered, the base
\* context is not cancelled, neither RunE nor the post-run hooks have run,
\* and the error is the result of the command.
C4_PreRunErrorAborts ==
    (cmd = "run" /\ HasRes("PreRunF", "err"))
        => /\ srv = "none" /\ ~sigNotify /\ sigChan = 0
           /\ ~baseCancelled /\ shutdownCtx = "none" /\ shutdownCalls = 0
           /\ ~Has("RunE") /\ ~Has("PostRunF") /\ ~Has("PostCmdF")
           /\ pc = "exit_err" /\ result = HookErr("PreRunF")

C4_Witness ==
    cmd = "run" /\ HasRes("PreRunF", "err") /\ pc = "exit_err" /\ file.exists

----------------------------------------------------------------------------
(* C5 *)

\* C5: PostRunF has run only after the signal was received, the base
\* context cancelled and Shutdown returned nil with every connection
\* drained and the listener closed, RunE having returned nil before it; an
\* error of PostRunF is the command's result and leaves the server stopped
\* and the base context cancelled.
C5_PostRunAfterShutdown ==
    Has("PostRunF")
        => /\ cmd = "run"
           /\ \E i, j \in DOMAIN trace :
                 /\ i < j
                 /\ trace[i] = [step |-> "RunE", res |-> "ok"]
                 /\ trace[j].step = "PostRunF"
           /\ baseCancelled /\ shutdownCtx # "none"
           /\ inShutdown /\ shutdownCalls = 1
           /\ srv # "listening" /\ inflight = 0
           /\ ~ForcedShutdown
           /\ pc \notin {"RunE", "wait_signal", "Shutdown", "ShutdownPoll"}
           /\ HasRes("PostRunF", "err")
                 => pc = "exit_err" /\ result = HookErr("PostRunF")

C5_Witness ==
    /\ HasRes("PostRunF", "err") /\ pc = "exit_err"
    /\ result = HookErr("PostRunF") /\ srv = "closed" /\ baseCancelled

----------------------------------------------------------------------------
(* C6 *)

\* cobra's order of the hooks and bodies of one invocation
Rank(step) == CASE step = "PreCmdF" -> 1 [] step = "PreRunF" -> 2
                [] step = "InitF" -> 3 [] step = "RunE" -> 4
                [] step = "PostRunF" -> 5 [] step = "PostCmdF" -> 6

\* C6: the hooks and the body run in the order PreCmdF, PreRunF, body
\* (InitF inside init's), PostRunF, PostCmdF, and a step has run only if
\* every earlier one returned no error: an error is the last thing that ran
\* and ends the command with that error, and PostCmdF has run only after
\* the body returned nil.
C6_HooksGateEachOther ==
    /\ \A i, j \in DOMAIN trace :
          i < j => Rank(trace[i].step) < Rank(trace[j].step)
    /\ \A i \in DOMAIN trace :
          trace[i].res = "err"
             => \/ i = Len(trace)
                \/ /\ trace[i].step = "InitF" /\ i = Len(trace) - 1
                   /\ trace[Len(trace)] = [step |-> "RunE", res |-> "err"]
    /\ HookFailed => pc = "exit_err"
    /\ \A h \in {"PreCmdF", "PreRunF", "PostRunF", "PostCmdF", "InitF"} :
          HasRes(h, "err") => result = HookErr(h)
    /\ Has("PostCmdF") => HasRes("RunE", "ok")
    /\ pc = "exit_ok" => HasRes("RunE", "ok") /\ ~HookFailed

C6_Witness ==
    /\ cmd = "run" /\ trace = <<[step |-> "PreCmdF", res |-> "err"]>>
    /\ pc = "exit_err" /\ srv = "none"

----------------------------------------------------------------------------
(* C7 *)

\* C7: with no settings file, a command other than init, version, info and
\* help has ended fatally in the root pre-hook, before PreCmdF, its own
\* hooks and its body; init, version, info and help go on: no fatal exit,
\* no load, and the body is reached unless PreCmdF returned an error.
C7_MissingFileIsFatal ==
    /\ (Started /\ ~Killed /\ cmd \notin ExemptCommands /\ ~file.exists)
          => /\ pc = "exit_fatal" /\ result = ErrNoSettingsFile
             /\ trace = <<>> /\ stdout = {} /\ srv = "none"
    /\ (Started /\ ~Killed /\ cmd \in ExemptCommands /\ FileWasAbsent)
          => /\ pc # "exit_fatal" /\ result # ErrNoSettingsFile
             /\ result \notin LoadErrors /\ ~settings.LoadedFromFile
             /\ pc = "RunE" \/ Has("RunE") \/ HasRes("PreCmdF", "err")

C7_Witness ==
    /\ cmd = "run" /\ ~file.exists
    /\ pc = "exit_fatal" /\ result = ErrNoSettingsFile

----------------------------------------------------------------------------
(* C8 *)

\* what loadSettings rejects
FileInvalid(f) ==
    \/ ~f.valid
    \/ /\ f.Production
       /\ f.BaseUrl = "" \/ f.WebserverCookieSecret < 32

\* C8 as stated: for init, version, info and help the settings are never
\* loaded and no load or validation error is the outcome, so version prints
\* and succeeds (its hooks permitting) whatever the file is.
C8_NeverLoadedForExempt ==
    (Started /\ ~Killed /\ cmd \in ExemptCommands)
        => /\ ~settings.LoadedFromFile
           /\ result \notin LoadErrors
           /\ (cmd = "version" /\ pc \in Exited /\ ~HookFailed)
                 => result = "ok" /\ "version" \in stdout

\* C8 amended: init, version, info and help do not need the settings file,
\* but when it exists it is loaded and validated for them as for every
\* command: absent, nothing is loaded; present and valid, the settings are
\* loaded and version prints and succeeds (its hooks permitting); present
\* and invalid, the command ends with the load error before PreCmdF and
\* version prints nothing.
C8_LoadedWheneverPresent ==
    (Started /\ ~Killed /\ cmd \in ExemptCommands)
        => /\ FileWasAbsent
              => ~settings.LoadedFromFile /\ result \notin LoadErrors
           /\ (FileWasPresent /\ ~FileInvalid(file))
              => settings.LoadedFromFile /\ result \notin LoadErrors
           /\ (FileWasPresent /\ FileInvalid(file))
              => /\ pc = "exit_err" /\ result \in LoadErrors
                 /\ trace = <<>> /\ stdout = {}
           /\ (cmd = "version" /\ pc \in Exited /\ ~HookFailed
                 /\ ~(file.exists /\ FileInvalid(file)))
              => result = "ok" /\ "version" \in stdout

C8_Witness ==
    /\ cmd = "version" /\ pc = "exit_err" /\ file.exists /\ file.valid
    /\ result = ErrBaseUrlRequired /\ "version" \notin stdout

----------------------------------------------------------------------------
(* C9 *)

\* C9: every step that changes the settings file is init's body running
\* with no file there, and it writes the default settings; so init on an
\* existing file, and version, info, install, uninstall and run, leave the
\* file as it is, whatever the load did to the settings in memory.
C9_OnlyInitWritesFile ==
    [][file' # file
          => /\ cmd = "init" /\ pc = "RunE"
             /\ ~file.exists /\ file'.exists
             /\ file' = [exists |-> TRUE, valid |-> TRUE,
                         Production |-> defaultSettings.Production,
                         BaseUrl |-> defaultSettings.BaseUrl,
                         WebserverCookieSecret |->
                             defaultSettings.WebserverCookieSecret]]_vars

C9_Witness ==
    /\ cmd = "init" /\ pc = "exit_err" /\ result = ErrExistingFile
    /\ file.exists /\ file.valid /\ file.BaseUrl = ""
    /\ settings.BaseUrl = "http://localhost:15115"

----------------------------------------------------------------------------
(* C10 *)

ProductionShortSecret ==
    /\ Started /\ ~Killed /\ FileWasPresent /\ file.valid
    /\ file.Production /\ file.WebserverCookieSecret < 32

\* C10 as stated: production mode and a cookie secret shorter than 32, with
\* any base URL, make loadSettings return the error about the length of the
\* cookie secret.
C10_ShortSecretLengthError ==
    ProductionShortSecret => pc = "exit_err" /\ result = ErrCookieSecretLength

\* C10 amended: production mode and a cookie secret shorter than 32 make
\* loadSettings return an error: 'base_url required' when the base URL is
\* blank, else 'webserver_cookie_secret required' when the secret is empty,
\* else the error about the length (1..31); the base URL and the secret in
\* memory are the file's, not defaulted, and nothing runs after the load.
C10_ShortSecretRejected ==
    ProductionShortSecret
        => /\ pc = "exit_err"
           /\ result = IF file.BaseUrl = "" THEN ErrBaseUrlRequired
                       ELSE IF file.WebserverCookieSecret = 0
                       THEN ErrCookieSecretRequired
                       ELSE ErrCookieSecretLength
           /\ settings.BaseUrl = file.BaseUrl
           /\ settings.WebserverCookieSecret = file.WebserverCookieSecret
           /\ settings.LoadedFromFile
           /\ trace = <<>>

C10_Witness ==
    /\ cmd = "run" /\ pc = "exit_err" /\ result = ErrCookieSecretLength
    /\ file.Production /\ file.WebserverCookieSecret = 31
    /\ settings.WebserverCookieSecret = 31

----------------------------------------------------------------------------
(* C11 *)

\* C11: a step in which ListenAndServe fails changes nothing but the
\* serving goroutine: the process lives on, the base context is not
\* cancelled and the controlling thread stays where it is; and the
\* controlling thread leaves its wait only by taking a signal from the
\* channel, so it is in or past Shutdown only after a signal was received.
C11_ServeFailureOnlyLogged ==
    [][/\ (srv # "failed" /\ srv' = "failed")
             => UNCHANGED <<pc, result, baseCancelled, shutdownCtx, sigChan,
                            trace, shutdownCalls, inShutdown>>
       /\ (pc = "wait_signal" /\ pc' # "wait_signal")
             => /\ sigChan > 0 /\ sigChan' = sigChan - 1
                /\ pc' = "Shutdown" /\ baseCancelled'
       /\ (cmd' = "run" /\ (pc' \in {"Shutdown", "ShutdownPoll", "PostRunE"}
                              \/ shutdownCalls' > 0 \/ HasRes("RunE", "ok")'))
             => baseCancelled' /\ shutdownCtx' # "none"]_vars

C11_Witness ==
    /\ cmd = "run" /\ srv = "failed" /\ pc = "wait_signal"
    /\ sigChan = 0 /\ ~baseCancelled /\ result = "running"

----------------------------------------------------------------------------
(* C12 *)

\* C12: after internalInit a non-empty WebApiPathPrefix starts with '/' and
\* does not end with '/', whatever non-empty value the caller set ("api",
\* "api/", "/api", "/api/"; "/" as far as it can), and an empty one stays
\* empty.
C12_PrefixNormalized ==
    pc # "idle"
        => /\ apiPrefixOption = <<>> => WebApiPathPrefix = <<>>
           /\ (apiPrefixOption # <<>> /\ WebApiPathPrefix # <<>>)
                 => /\ WebApiPathPrefix[1] = "/"
                    /\ \/ WebApiPathPrefix[Len(WebApiPathPrefix)] # "/"
                       \/ WebApiPathPrefix = <<"/">>

----------------------------------------------------------------------------
(* C13 *)

\* a later init, ended, on the file a failed InitF left behind
LaterInitEnded ==
    /\ initFFailed /\ cmd = "init" /\ pc \in Exited /\ ~Killed
    /\ FileWasPresent /\ ~HasRes("PreCmdF", "err")

WrittenBeforeInitF ==
    /\ Has("InitF") => FileWritten /\ file.exists
    /\ (cmd = "init" /\ HasRes("InitF", "err"))
          => /\ file.exists /\ initFFailed
             /\ pc = "exit_err" /\ result = HookErr("InitF")
    /\ initFFailed
          => file = [exists |-> TRUE, valid |-> TRUE,
                     Production |-> defaultSettings.Production,
                     BaseUrl |-> defaultSettings.BaseUrl,
                     WebserverCookieSecret |->
                         defaultSettings.WebserverCookieSecret]

\* C13 as stated: init writes the file before InitF and leaves it there
\* when InitF fails, and every later init on that path (PreCmdF permitting)
\* fails with the 'existing file' error without calling InitF.
C13_LaterInitExistingFileError ==
    /\ WrittenBeforeInitF
    /\ LaterInitEnded => result = ErrExistingFile /\ ~Has("InitF")

\* C13 amended: init writes the file before InitF and leaves it there when
\* InitF fails, and every later init on that path fails without calling
\* InitF and without touching the file: with the 'existing file' error when
\* the written defaults pass loadSettings, and before that, in the root
\* pre-hook, with the load error when they do not.
C13_LaterInitFailsWithoutInitF ==
    /\ WrittenBeforeInitF
    /\ LaterInitEnded
          => /\ ~Has("InitF") /\ pc = "exit_err" /\ ~FileWritten
             /\ IF FileInvalid(file)
                THEN result \in LoadErrors /\ trace = <<>>
                ELSE result = ErrExistingFile /\ HasRes("RunE", "err")

C13_Witness ==
    /\ initFFailed /\ cmd = "init" /\ pc = "exit_err"
    /\ result = ErrExistingFile /\ ~Has("InitF") /\ file.exists

----------------------------------------------------------------------------
(* C14 *)

ClosedAfterOpen(call) ==
    /\ Len(dbCalls) >= 2
    /\ dbCalls[Len(dbCalls) - 1] = "Open"
    /\ dbCalls[Len(dbCalls)] = call

\* C14: after Close() following a successful Open(): when DB() gave the
\* handle without error the SQL connection is closed and Db() is nil, and
\* when DB() gave an error no handle was dereferenced (no panic).
C14_CloseClosesConnection ==
    /\ ClosedAfterOpen("Close")
          => dbPanic = "none" /\ db = "nil" /\ conn = "closed"
    /\ ClosedAfterOpen("Close, DB() error")
          => dbPanic # "nil pointer dereference"

====
